---- MODULE Spec2Model ----
(***************************************************************************)
(* A model of the SSD1331 display driver (src/src/display.rs): the         *)
(* framebuffer, the stored rotation, the data/command line, the transport  *)
(* and the operations new, clear, reset, flush, set_draw_area, set_pixel,  *)
(* init, dimensions, set_rotation and rotation.                            *)
(*                                                                         *)
(* Every operation of the driver is one action. The events an operation    *)
(* puts on its pins and on the transport are recorded, in order, in `bus`  *)
(* (the events of the most recent call), and `call` records which          *)
(* operation was called, with which arguments and what it returned.        *)
(***************************************************************************)
EXTENDS Integers, Sequences, FiniteSets, TLC

VARIABLES
    buffer,            \* self.buffer: [u8; BUF_SIZE], kept as index -> byte for the non-zero bytes
    display_rotation,  \* self.display_rotation
    dc,                \* level of the data/command pin as last driven by the driver
    lastRemap,         \* rotation of the last RemapAndColorDepth command the transport accepted
    inited,            \* TRUE once an init() call has returned Ok
    panicked,          \* TRUE once a call has panicked (the program is gone)
    build,             \* the target: width of usize and whether overflow checks are compiled in
    call,              \* the most recent call: operation, arguments, injected fault, result
    bus,               \* the pin, delay and transport events of the most recent call, in order
    nCalls,            \* number of calls made so far
    nFaults,           \* number of I/O faults injected so far
    drawn              \* history: what the caller has drawn (see Drawn)

vars == <<buffer, display_rotation, dc, lastRemap, inited, panicked, build,
          call, bus, nCalls, nFaults, drawn>>

----------------------------------------------------------------------------
(* Program constants *)

BUF_SIZE == 12288
DISPLAY_WIDTH == 96
DISPLAY_HEIGHT == 64

(* Bounds of the model *)

MaxCalls == 2
MaxFaults == 1

Rotations == {"Rotate0", "Rotate90", "Rotate180", "Rotate270"}

\* usize is 32 bits wide on the targets of the examples (STM32F103) and 64 bits
\* wide on a host; overflow checks are on in a debug build and off in a release build.
Builds == [bits : {32, 64}, checks : BOOLEAN]

----------------------------------------------------------------------------
(* Unsigned integers wider than the model checker's integers: a value is   *)
(* hi * 2^16 + lo with 0 <= lo < 2^16.                                     *)

Limb == 2 ^ 16

Norm(h, l) == [hi |-> h + (l \div Limb), lo |-> l % Limb]

Wide(n) == Norm(0, n)

WMul(a, k) == Norm(a.hi * k, a.lo * k)

WAdd(a, b) == Norm(a.hi + b.hi, a.lo + b.lo)

\* a >= n, for a small n (n < 2^16)
WGe(a, n) == a.hi > 0 \/ a.lo >= n

U32_MAX == [hi |-> Limb - 1, lo |-> Limb - 1]

\* The result of a usize operation whose mathematical value is a: the value when it
\* fits; otherwise a panic with overflow checks, and the wrapped value without.
\* (No value of the model reaches 2^64, so a 64-bit usize never overflows.)
Usize(b, a) ==
    IF b.bits = 32 /\ a.hi >= Limb
    THEN IF b.checks
         THEN [panic |-> TRUE, val |-> a]
         ELSE [panic |-> FALSE, val |-> [hi |-> a.hi % Limb, lo |-> a.lo]]
    ELSE [panic |-> FALSE, val |-> a]

----------------------------------------------------------------------------
(* The framebuffer *)

ZeroBuffer == [i \in {} |-> 0]

Byte(buf, i) == IF i \in DOMAIN buf THEN buf[i] ELSE 0

\* buf[i] = b of a [u8; BUF_SIZE]: an index past the end panics.
Store(buf, i, b) ==
    IF i >= BUF_SIZE
    THEN [panic |-> TRUE, buf |-> buf]
    ELSE [panic |-> FALSE,
          buf |-> [j \in IF b = 0 THEN DOMAIN buf \ {i} ELSE DOMAIN buf \cup {i}
                     |-> IF j = i THEN b ELSE buf[j]]]

\* dimensions() without the swap for the quarter-turn rotations.
dimensions_unrotated(rot) == <<DISPLAY_WIDTH, DISPLAY_HEIGHT>>

dimensions(rot) ==
    IF rot \in {"Rotate0", "Rotate180"}
    THEN <<DISPLAY_WIDTH, DISPLAY_HEIGHT>>
    ELSE <<DISPLAY_HEIGHT, DISPLAY_WIDTH>>

\* Properties::dimensions(), for a Properties whose display_rotation is rot
Properties_dimensions(rot) ==
    IF rot \in {"Rotate0", "Rotate180"}
    THEN <<DISPLAY_WIDTH, DISPLAY_HEIGHT>>
    ELSE <<DISPLAY_HEIGHT, DISPLAY_WIDTH>>

rotation == display_rotation

\* PixelIndex with both rotation families checked against the native height.
PixelIndex_height(b, rot, x, y) ==
    LET horizontal == rot \in {"Rotate0", "Rotate180"}
        checked == IF horizontal THEN x ELSE y
        stride == IF horizontal THEN DISPLAY_WIDTH ELSE DISPLAY_HEIGHT
        m == Usize(b, WMul(y, stride))
        s == Usize(b, WAdd(m.val, x))
        d == Usize(b, WMul(s.val, 2))
    IN  IF WGe(checked, IF horizontal THEN DISPLAY_WIDTH ELSE DISPLAY_HEIGHT)
        THEN [kind |-> "return"]
        ELSE IF m.panic \/ s.panic \/ d.panic THEN [kind |-> "panic"]
        ELSE [kind |-> "idx", idx |-> d.val]

\* The index computed with the row length of the quarter-turn rotations for every
\* rotation.
PixelIndex_one_stride(b, rot, x, y) ==
    LET horizontal == rot \in {"Rotate0", "Rotate180"}
        checked == IF horizontal THEN x ELSE y
        m == Usize(b, WMul(y, DISPLAY_HEIGHT))
        s == Usize(b, WAdd(m.val, x))
        d == Usize(b, WMul(s.val, 2))
    IN  IF WGe(checked, DISPLAY_WIDTH) THEN [kind |-> "return"]
        ELSE IF m.panic \/ s.panic \/ d.panic THEN [kind |-> "panic"]
        ELSE [kind |-> "idx", idx |-> d.val]

\* The index computation of set_pixel: "return" (the early return), "panic" (an
\* arithmetic overflow with overflow checks) or the index computed.
PixelIndex(b, rot, x, y) ==
    LET horizontal == rot \in {"Rotate0", "Rotate180"}
        checked == IF horizontal THEN x ELSE y
        stride == IF horizontal THEN DISPLAY_WIDTH ELSE DISPLAY_HEIGHT
        m == Usize(b, WMul(y, stride))
        s == Usize(b, WAdd(m.val, x))
        d == Usize(b, WMul(s.val, 2))
    IN  IF WGe(checked, DISPLAY_WIDTH) THEN [kind |-> "return"]
        ELSE IF m.panic \/ s.panic \/ d.panic THEN [kind |-> "panic"]
        ELSE [kind |-> "idx", idx |-> d.val]

\* set_pixel storing the low byte first.
set_pixel_low_first(b, rot, buf, x, y, value) ==
    LET p == PixelIndex(b, rot, x, y) IN
    IF p.kind = "return" THEN [panic |-> FALSE, buf |-> buf]
    ELSE IF p.kind = "panic" THEN [panic |-> TRUE, buf |-> buf]
    ELSE IF WGe(p.idx, BUF_SIZE - 1) THEN [panic |-> FALSE, buf |-> buf]
    ELSE LET low == value % 256
             high == (value \div 256) % 256
             w1 == Store(buf, p.idx.lo, low)
             w2 == Store(w1.buf, p.idx.lo + 1, high)
         IN  IF w1.panic THEN w1 ELSE w2

\* set_pixel with the length check off by one pair (idx > len instead of idx >= len - 1).
set_pixel_past_end(b, rot, buf, x, y, value) ==
    LET p == PixelIndex(b, rot, x, y) IN
    IF p.kind = "return" THEN [panic |-> FALSE, buf |-> buf]
    ELSE IF p.kind = "panic" THEN [panic |-> TRUE, buf |-> buf]
    ELSE IF WGe(p.idx, BUF_SIZE + 1) THEN [panic |-> FALSE, buf |-> buf]
    ELSE LET low == value % 256
             high == (value \div 256) % 256
             w1 == Store(buf, p.idx.lo, high)
             w2 == Store(w1.buf, p.idx.lo + 1, low)
         IN  IF w1.panic THEN w1 ELSE w2

\* set_pixel(x, y, value) on buffer buf: the buffer after the call, or a panic.
set_pixel(b, rot, buf, x, y, value) ==
    LET p == PixelIndex(b, rot, x, y) IN
    IF p.kind = "return" THEN [panic |-> FALSE, buf |-> buf]
    ELSE IF p.kind = "panic" THEN [panic |-> TRUE, buf |-> buf]
    ELSE IF WGe(p.idx, BUF_SIZE - 1) THEN [panic |-> FALSE, buf |-> buf]
    ELSE LET low == value % 256
             high == (value \div 256) % 256
             w1 == Store(buf, p.idx.lo, high)
             w2 == Store(w1.buf, p.idx.lo + 1, low)
         IN  IF w1.panic THEN w1 ELSE w2

----------------------------------------------------------------------------
(* Commands, pins and the transport.  An event is a tuple whose first      *)
(* element names its kind: <<"dc", level>> drives the data/command pin,    *)
(* <<"cmd", command>> is a transport write of a command's bytes,           *)
(* <<"data", bytes>> a transport write of framebuffer bytes, <<"rst",      *)
(* level>> drives the reset pin, <<"delay", ms>> blocks, and <<"panic">>   *)
(* is an arithmetic overflow caught by the build's overflow checks.        *)

\* Command::send(spi, dc): the control line to the command level, then one write.
send(cmd) == << <<"dc", "low">>, <<"cmd", cmd>> >>

\* RemapCommand with the remap flag of the two vertical rotations exchanged.
RemapCommand_swapped(rot) ==
    CASE rot = "Rotate0"   -> <<"RemapAndColorDepth", FALSE, FALSE, "CM65k", "Horizontal">>
      [] rot = "Rotate90"  -> <<"RemapAndColorDepth", FALSE, TRUE, "CM65k", "Vertical">>
      [] rot = "Rotate180" -> <<"RemapAndColorDepth", TRUE, TRUE, "CM65k", "Horizontal">>
      [] rot = "Rotate270" -> <<"RemapAndColorDepth", TRUE, FALSE, "CM65k", "Vertical">>

\* The command set_rotation sends for rot.
RemapCommand(rot) ==
    CASE rot = "Rotate0"   -> <<"RemapAndColorDepth", FALSE, FALSE, "CM65k", "Horizontal">>
      [] rot = "Rotate90"  -> <<"RemapAndColorDepth", TRUE, FALSE, "CM65k", "Vertical">>
      [] rot = "Rotate180" -> <<"RemapAndColorDepth", TRUE, TRUE, "CM65k", "Horizontal">>
      [] rot = "Rotate270" -> <<"RemapAndColorDepth", FALSE, TRUE, "CM65k", "Vertical">>

set_rotation(rot) == send(RemapCommand(rot))

\* init with the rotation applied after the contrast instead of before it.
init_late_rotation(rot) ==
    send(<<"DisplayOn", FALSE>>)
    \o send(<<"DisplayClockDiv", 8, 0>>)
    \o send(<<"Multiplex", 64 - 1>>)
    \o send(<<"DisplayOffset", 0>>)
    \o send(<<"StartLine", 0>>)
    \o send(<<"Contrast", 145, 80, 125>>)
    \o set_rotation(rot)
    \o send(<<"PreChargePeriod", 1, 15>>)
    \o send(<<"VcomhDeselect", "V071">>)
    \o send(<<"AllOn", FALSE>>)
    \o send(<<"Invert", FALSE>>)
    \o send(<<"DisplayOn", TRUE>>)

init(rot) ==
    send(<<"DisplayOn", FALSE>>)
    \o send(<<"DisplayClockDiv", 8, 0>>)
    \o send(<<"Multiplex", 64 - 1>>)
    \o send(<<"DisplayOffset", 0>>)
    \o send(<<"StartLine", 0>>)
    \o set_rotation(rot)
    \o send(<<"Contrast", 145, 80, 125>>)
    \o send(<<"PreChargePeriod", 1, 15>>)
    \o send(<<"VcomhDeselect", "V071">>)
    \o send(<<"AllOn", FALSE>>)
    \o send(<<"Invert", FALSE>>)
    \o send(<<"DisplayOn", TRUE>>)

\* The events of sending a command whose operand is n - 1 in u8 arithmetic: for
\* n = 0 the subtraction overflows, which panics with overflow checks and wraps
\* to 255 without.
SendEndingAt(b, name, first, n) ==
    IF n = 0 /\ b.checks
    THEN << <<"panic">> >>
    ELSE send(<<name, first, (n + 256 - 1) % 256>>)

\* set_draw_area taking end as the last column and row instead of one past them.
set_draw_area_inclusive(b, start, end) ==
    send(<<"ColumnAddress", start[1], end[1]>>) \o send(<<"RowAddress", start[2], end[2]>>)

set_draw_area(b, start, end) ==
    SendEndingAt(b, "ColumnAddress", start[1], end[1])
    \o SendEndingAt(b, "RowAddress", start[2], end[2])

\* flush without the draw area: the buffer goes out wherever the window was left.
flush_no_area(b, buf) == << <<"dc", "high">>, <<"data", buf>> >>

\* flush writing the buffer without raising the data/command pin first.
flush_no_dc_high(b, buf) ==
    set_draw_area(b, <<0, 0>>, <<DISPLAY_WIDTH, DISPLAY_HEIGHT>>) \o << <<"data", buf>> >>

flush(b, buf) ==
    set_draw_area(b, <<0, 0>>, <<DISPLAY_WIDTH, DISPLAY_HEIGHT>>)
    \o << <<"dc", "high">>, <<"data", buf>> >>

\* Properties::draw(buffer): data/command pin high, then one write of the buffer
Properties_draw(buf) == << <<"dc", "high">>, <<"data", buf>> >>

\* Properties::set_rotation with the column remap of the quarter turns exchanged.
Properties_set_rotation_mirrored(rot) ==
    CASE rot = "Rotate0"   -> send(<<"RemapAndColorDepth", FALSE, FALSE, "CM65k", "Horizontal">>)
      [] rot = "Rotate90"  -> send(<<"RemapAndColorDepth", FALSE, FALSE, "CM65k", "Vertical">>)
      [] rot = "Rotate180" -> send(<<"RemapAndColorDepth", TRUE, TRUE, "CM65k", "Horizontal">>)
      [] rot = "Rotate270" -> send(<<"RemapAndColorDepth", TRUE, TRUE, "CM65k", "Vertical">>)

\* Properties::set_rotation(display_rotation): the remap command of the rotation
Properties_set_rotation(rot) ==
    CASE rot = "Rotate0"   -> send(<<"RemapAndColorDepth", FALSE, FALSE, "CM65k", "Horizontal">>)
      [] rot = "Rotate90"  -> send(<<"RemapAndColorDepth", TRUE, FALSE, "CM65k", "Vertical">>)
      [] rot = "Rotate180" -> send(<<"RemapAndColorDepth", TRUE, TRUE, "CM65k", "Horizontal">>)
      [] rot = "Rotate270" -> send(<<"RemapAndColorDepth", FALSE, TRUE, "CM65k", "Vertical">>)

\* Properties::init_column_mode(), for a Properties whose display_rotation is rot
Properties_init_column_mode(rot) ==
    send(<<"DisplayOn", FALSE>>)
    \o send(<<"DisplayClockDiv", 8, 0>>)
    \o send(<<"Multiplex", 64 - 1>>)
    \o send(<<"DisplayOffset", 0>>)
    \o send(<<"StartLine", 0>>)
    \o Properties_set_rotation(rot)
    \o send(<<"Contrast", 145, 80, 125>>)
    \o send(<<"PreChargePeriod", 1, 15>>)
    \o send(<<"VcomhDeselect", "V071">>)
    \o send(<<"AllOn", FALSE>>)
    \o send(<<"Invert", FALSE>>)
    \o send(<<"DisplayOn", TRUE>>)

\* Properties::set_draw_area(start, end)
Properties_set_draw_area(b, start, end) ==
    SendEndingAt(b, "ColumnAddress", start[1], end[1])
    \o SendEndingAt(b, "RowAddress", start[2], end[2])

\* reset() with the two delays exchanged.
reset_swapped_delays ==
    << <<"rst", "high">>, <<"delay", 10>>, <<"rst", "low">>, <<"delay", 1>>, <<"rst", "high">> >>

reset ==
    << <<"rst", "high">>, <<"delay", 1>>, <<"rst", "low">>, <<"delay", 10>>, <<"rst", "high">> >>

\* The error Command::send returns: Error::Pin when setting the control line fails,
\* Error::Comm when the write fails.
SendErrorOf(ev) == IF ev[1] = "dc" THEN "Pin" ELSE "Comm"

\* The error a failed event is reported as: that of send for the events of a send;
\* map_err(Error::Pin) for a pin and map_err(Error::Comm) for the buffer write.
ErrorOf(ev) ==
    IF ev[1] = "cmd" \/ (ev[1] = "dc" /\ ev[2] = "low") THEN SendErrorOf(ev)
    ELSE IF ev[1] \in {"dc", "rst"} THEN "Pin"
    ELSE "Comm"

FirstPanic(ops) ==
    LET ps == {i \in 1..Len(ops) : ops[i][1] = "panic"} IN
    IF ps = {} THEN Len(ops) + 1 ELSE CHOOSE i \in ps : \A j \in ps : i <= j

\* The events of ops that can be made to fail: pin operations and writes that the
\* call reaches.  0 stands for no fault.
FaultPoints(ops) ==
    {0} \cup {i \in 1..Len(ops) : ops[i][1] \in {"dc", "cmd", "data", "rst"} /\ i < FirstPanic(ops)}

\* Run with the result of a failing step dropped instead of returned.
Run_ignores_error(ops, f) ==
    LET stop == FirstPanic(ops) IN
    [done |-> SelectSeq([i \in 1..(stop - 1) |-> IF i = f THEN <<"skip">> ELSE ops[i]],
                        LAMBDA e : e # <<"skip">>),
     result |-> IF stop > Len(ops) THEN "Ok" ELSE "Panic"]

\* Running ops with event f failing (f = 0: none): every step is followed by `?`, so
\* the call stops at the first failing event, and a panic stops it too.
Run(ops, f) ==
    LET stop == IF f # 0 /\ f < FirstPanic(ops) THEN f ELSE FirstPanic(ops) IN
    [done |-> SubSeq(ops, 1, stop - 1),
     result |-> IF stop > Len(ops) THEN "Ok"
                ELSE IF ops[stop][1] = "panic" THEN "Panic"
                ELSE ErrorOf(ops[stop])]

\* Running the events of a Properties method with event f failing: as Run, with
\* every error mapped to the unit error.
Properties_Run(ops, f) ==
    LET r == Run(ops, f) IN
    [done |-> r.done, result |-> IF r.result \in {"Pin", "Comm"} THEN "Err" ELSE r.result]

Last(S) == CHOOSE i \in S : \A j \in S : j <= i

\* The level of the data/command pin after the events evs.
DcAfter(level, evs) ==
    LET ds == {i \in 1..Len(evs) : evs[i][1] = "dc"} IN
    IF ds = {} THEN level ELSE evs[Last(ds)][2]

\* The rotation the controller is configured for: that of the last remap command written.
RemapAfter(rot, evs) ==
    LET rs == {i \in 1..Len(evs) : evs[i][1] = "cmd" /\ evs[i][2][1] = "RemapAndColorDepth"} IN
    IF rs = {} THEN rot
    ELSE CHOOSE r \in Rotations : RemapCommand(r) = evs[Last(rs)][2]

----------------------------------------------------------------------------
(* Inputs *)

\* <<x, y>> of set_pixel: the corners and the first pixels past each edge of the
\* 96 x 64 and of the 64 x 96 logical screen, and coordinates large enough to
\* overflow a 32-bit index.
P(x, y) == <<Wide(x), Wide(y)>>

PIXELS == { P(0, 0), P(0, 1), P(95, 0), P(0, 63), P(95, 63), P(96, 0), P(0, 64),
            P(0, 95), P(63, 95), P(64, 0), P(64, 95), P(0, 96), P(0, 2 ^ 27),
            <<U32_MAX, Wide(0)>>, <<U32_MAX, Wide(95)>>, <<U32_MAX, Wide(96)>> }

VALUES == {63488, 2021}    \* 0xF800, 0x07E5

\* <<start, end>> of set_draw_area: the full screen, a sub-region, and regions whose
\* end column or end row is 0.
AREAS == { <<<<0, 0>>, <<96, 64>>>>, <<<<10, 20>>, <<30, 40>>>>,
           <<<<0, 0>>, <<0, 8>>>>, <<<<0, 0>>, <<8, 0>>>> }

----------------------------------------------------------------------------
(* State *)

NoCall == [op |-> "new", x |-> Wide(0), y |-> Wide(0), v |-> 0, rot |-> "-",
           area |-> <<>>, fail |-> 0, result |-> "Ok"]

\* The caller's view of the screen: px maps <<x, y>>, a pixel of the native 96 x 64
\* screen, to the value of the last set_pixel(x, y, value) since construction or the
\* last clear(); plain is TRUE as long as the display was constructed with rotation 0
\* and only set_pixel, clear and flush have been called.
NothingDrawn == [p \in {} |-> 0]

Drawn(d, x, y, v) ==
    IF x.hi = 0 /\ x.lo < DISPLAY_WIDTH /\ y.hi = 0 /\ y.lo < DISPLAY_HEIGHT
    THEN [d EXCEPT !.px = [p \in DOMAIN d.px \cup {<<x.lo, y.lo>>}
                             |-> IF p = <<x.lo, y.lo>> THEN v ELSE d.px[p]]]
    ELSE d

\* Ssd1331::new(spi, dc, display_rotation): no I/O
Init ==
    /\ buffer = ZeroBuffer
    /\ display_rotation \in Rotations
    /\ dc = "unset"
    /\ lastRemap = "none"
    /\ inited = FALSE
    /\ panicked = FALSE
    /\ build \in Builds
    /\ call = NoCall
    /\ bus = <<>>
    /\ nCalls = 0
    /\ nFaults = 0
    /\ drawn = [plain |-> display_rotation = "Rotate0", px |-> NothingDrawn]

Live == ~panicked /\ nCalls < MaxCalls

SetPixel ==
    \E p \in PIXELS, v \in VALUES :
        LET x == p[1]
            y == p[2]
            r == set_pixel(build, display_rotation, buffer, x, y, v)
        IN
        /\ Live
        /\ buffer' = r.buf
        /\ panicked' = r.panic
        /\ call' = [NoCall EXCEPT !.op = "set_pixel", !.x = x, !.y = y, !.v = v,
                                  !.result = IF r.panic THEN "Panic" ELSE "Ok"]
        /\ bus' = <<>>
        /\ nCalls' = nCalls + 1
        /\ drawn' = Drawn(drawn, x, y, v)
        /\ UNCHANGED <<display_rotation, dc, lastRemap, inited, build, nFaults>>

\* clear() that zeroes nothing.
Clear_keeps ==
    /\ Live
    /\ buffer' = buffer
    /\ call' = [NoCall EXCEPT !.op = "clear", !.result = "Ok"]
    /\ bus' = <<>>
    /\ nCalls' = nCalls + 1
    /\ drawn' = [drawn EXCEPT !.px = NothingDrawn]
    /\ UNCHANGED <<display_rotation, dc, lastRemap, inited, panicked, build, nFaults>>

Clear ==
    /\ Live
    /\ buffer' = ZeroBuffer
    /\ call' = [NoCall EXCEPT !.op = "clear"]
    /\ bus' = <<>>
    /\ nCalls' = nCalls + 1
    /\ drawn' = [drawn EXCEPT !.px = NothingDrawn]
    /\ UNCHANGED <<display_rotation, dc, lastRemap, inited, panicked, build, nFaults>>

\* A call whose effect is the events ops, with event f failing.
IoCall(c, ops, f) ==
    LET r == Run(ops, f) IN
    /\ Live
    /\ f \in FaultPoints(ops)
    /\ f # 0 => nFaults < MaxFaults
    /\ nFaults' = IF f # 0 THEN nFaults + 1 ELSE nFaults
    /\ bus' = r.done
    /\ dc' = DcAfter(dc, r.done)
    /\ lastRemap' = RemapAfter(lastRemap, r.done)
    /\ panicked' = (r.result = "Panic")
    /\ call' = [c EXCEPT !.fail = f, !.result = r.result]
    /\ inited' = (inited \/ (c.op = "init" /\ r.result = "Ok"))
    /\ nCalls' = nCalls + 1
    /\ drawn' = [drawn EXCEPT !.plain = drawn.plain /\ c.op = "flush"]
    /\ UNCHANGED build

\* init() that puts the stored rotation back to 0 degrees.
InitDisplay_resets_rotation ==
    \E f \in 0..24 :
        /\ IoCall([NoCall EXCEPT !.op = "init"], init(display_rotation), f)
        /\ display_rotation' = "Rotate0"
        /\ UNCHANGED buffer

InitDisplay ==
    \E f \in 0..24 :
        /\ IoCall([NoCall EXCEPT !.op = "init"], init(display_rotation), f)
        /\ display_rotation' = display_rotation
        /\ UNCHANGED buffer

SetRotation ==
    \E rot \in Rotations, f \in 0..2 :
        /\ IoCall([NoCall EXCEPT !.op = "set_rotation", !.rot = rot], set_rotation(rot), f)
        /\ display_rotation' = rot
        /\ UNCHANGED buffer

SetDrawArea ==
    \E a \in AREAS, f \in 0..4 :
        /\ IoCall([NoCall EXCEPT !.op = "set_draw_area", !.area = a],
                  set_draw_area(build, a[1], a[2]), f)
        /\ UNCHANGED <<buffer, display_rotation>>

\* flush that empties the buffer once it has been sent.
Flush_clears ==
    \E f \in 0..6 :
        /\ IoCall([NoCall EXCEPT !.op = "flush"], flush(build, buffer), f)
        /\ buffer' = IF f = 0 THEN ZeroBuffer ELSE buffer
        /\ UNCHANGED display_rotation

Flush ==
    \E f \in 0..6 :
        /\ IoCall([NoCall EXCEPT !.op = "flush"], flush(build, buffer), f)
        /\ UNCHANGED <<buffer, display_rotation>>

Reset ==
    \E f \in 0..5 :
        /\ IoCall([NoCall EXCEPT !.op = "reset"], reset, f)
        /\ UNCHANGED <<buffer, display_rotation>>

Next ==
    \/ SetPixel
    \/ Clear
    \/ InitDisplay
    \/ SetRotation
    \/ SetDrawArea
    \/ Flush
    \/ Reset

Spec == Init /\ [][Next]_vars

----------------------------------------------------------------------------
(* Properties *)

\* The transport writes among the events evs, in order.
Writes(evs) == SelectSeq(evs, LAMBDA e : e[1] \in {"cmd", "data"})

\* The remap command of each rotation, as the controller expects it.
ExpectedRemap(rot) ==
    IF rot = "Rotate0" THEN <<"RemapAndColorDepth", FALSE, FALSE, "CM65k", "Horizontal">>
    ELSE IF rot = "Rotate90" THEN <<"RemapAndColorDepth", TRUE, FALSE, "CM65k", "Vertical">>
    ELSE IF rot = "Rotate180" THEN <<"RemapAndColorDepth", TRUE, TRUE, "CM65k", "Horizontal">>
    ELSE <<"RemapAndColorDepth", FALSE, TRUE, "CM65k", "Vertical">>

\* C1: a successful init() writes exactly the twelve commands of the bring-up
\* sequence to the transport, in order and with no other write in between:
\* DisplayOn(false), DisplayClockDiv(0x8,0x0), Multiplex(63), DisplayOffset(0),
\* StartLine(0), the remap command of the stored rotation, Contrast(0x91,0x50,0x7D),
\* PreChargePeriod(0x1,0xF), VcomhDeselect(V071), AllOn(false), Invert(false),
\* DisplayOn(true).
C1_InitSequence ==
    (call.op = "init" /\ call.result = "Ok") =>
        Writes(bus) = << <<"cmd", <<"DisplayOn", FALSE>>>>,
                         <<"cmd", <<"DisplayClockDiv", 8, 0>>>>,
                         <<"cmd", <<"Multiplex", 63>>>>,
                         <<"cmd", <<"DisplayOffset", 0>>>>,
                         <<"cmd", <<"StartLine", 0>>>>,
                         <<"cmd", ExpectedRemap(display_rotation)>>,
                         <<"cmd", <<"Contrast", 145, 80, 125>>>>,
                         <<"cmd", <<"PreChargePeriod", 1, 15>>>>,
                         <<"cmd", <<"VcomhDeselect", "V071">>>>,
                         <<"cmd", <<"AllOn", FALSE>>>>,
                         <<"cmd", <<"Invert", FALSE>>>>,
                         <<"cmd", <<"DisplayOn", TRUE>>>> >>

\* C1 witness: init() has returned Ok on a display rotated by 270 degrees, after an
\* earlier call.
C1_Witness ==
    /\ call.op = "init" /\ call.result = "Ok"
    /\ display_rotation = "Rotate270"
    /\ nCalls = 2
    /\ Len(Writes(bus)) = 12

\* The events evs without the control-line events of the command sends.
SansSendPins(evs) == SelectSeq(evs, LAMBDA e : ~(e[1] = "dc" /\ e[2] = "low"))

\* C2: in a successful flush() the commands ColumnAddress(0,95) and RowAddress(0,63)
\* are sent, in this order, then the control line is set to the data level, then
\* the buffer is written, and nothing else; and in no flush, successful or not, is
\* the buffer written before both address commands and the data level.
C2_FlushSequence ==
    call.op = "flush" =>
        /\ call.result = "Ok" =>
              SansSendPins(bus) = << <<"cmd", <<"ColumnAddress", 0, 95>>>>,
                                     <<"cmd", <<"RowAddress", 0, 63>>>>,
                                     <<"dc", "high">>,
                                     <<"data", buffer>> >>
        /\ \A i \in 1..Len(bus) :
              bus[i][1] = "data" =>
                  /\ \E j \in 1..(i - 1), k \in 1..(i - 1) :
                        /\ j < k
                        /\ bus[j] = <<"cmd", <<"ColumnAddress", 0, 95>>>>
                        /\ bus[k] = <<"cmd", <<"RowAddress", 0, 63>>>>
                  /\ bus[i - 1] = <<"dc", "high">>

\* C2 witness: flush() has returned Ok as the second call, on a rotated display whose
\* buffer holds a pixel.
C2_Witness ==
    /\ call.op = "flush" /\ call.result = "Ok"
    /\ nCalls = 2
    /\ display_rotation = "Rotate90"
    /\ buffer # ZeroBuffer
    /\ bus[Len(bus)] = <<"data", buffer>>

\* C10: a successful set_rotation(rot) writes exactly one command to the transport,
\* the remap command of rot, and right after it rotation() is rot and dimensions()
\* is (96,64) for 0 and 180 degrees and (64,96) for 90 and 270 degrees.
C10_SetRotation ==
    (call.op = "set_rotation" /\ call.result = "Ok") =>
        /\ Writes(bus) = << <<"cmd", ExpectedRemap(call.rot)>> >>
        /\ rotation = call.rot
        /\ dimensions(rotation) = IF call.rot \in {"Rotate0", "Rotate180"}
                                  THEN <<96, 64>> ELSE <<64, 96>>

\* C10 witness: set_rotation(Rotate270) has returned Ok on a display that was
\* initialised before it.
C10_Witness ==
    /\ call.op = "set_rotation" /\ call.result = "Ok"
    /\ call.rot = "Rotate270"
    /\ inited
    /\ dimensions(rotation) = <<64, 96>>

\* a <= n, for a small n
WLe(a, n) == a.hi = 0 /\ a.lo <= n

\* Bytes i and i + 1 of buf hold the 16-bit value v, high byte first.
Holds(buf, i, v) == Byte(buf, i) = v \div 256 /\ Byte(buf, i + 1) = v % 256

\* Some byte pair of buf holds v (both values of VALUES have a non-zero high byte).
HoldsSomewhere(buf, v) == \E i \in DOMAIN buf : Holds(buf, i, v)

\* The step is a call of set_pixel (call' then holds its arguments).
SetPixelStep == call'.op = "set_pixel" /\ nCalls' = nCalls + 1

\* (x, y) is outside the logical screen of rot.
OutsideLogical(rot, x, y) ==
    \/ WGe(x, dimensions(rot)[1])
    \/ WGe(y, dimensions(rot)[2])

\* C3 (as claimed): set_pixel(x, y, value) with x >= width or y >= height, where
\* (width, height) = dimensions() of the current rotation, leaves every byte of the
\* buffer as it was.
C3_OutsideIsNoop ==
    [][(SetPixelStep /\ OutsideLogical(display_rotation, call'.x, call'.y))
         => buffer' = buffer]_vars

\* C4 (as claimed): with rotation 90 degrees, after set_pixel(x, 95, v) the buffer
\* holds v, for every x.
C4_Row95WrittenForEveryX ==
    (/\ call.op = "set_pixel" /\ call.result = "Ok"
     /\ display_rotation = "Rotate90"
     /\ call.y = Wide(95))
        => HoldsSomewhere(buffer, call.v)

\* C4 (amended): with rotation 90 degrees, set_pixel(x, 95, v) with x <= 63 stores v
\* at offset 2*(95*64+x), and set_pixel(x, 96, v) leaves the buffer unchanged and
\* does not fail, for every x.
C4_Rotate90ChecksY ==
    [][(SetPixelStep /\ display_rotation = "Rotate90") =>
         /\ (call'.y = Wide(95) /\ WLe(call'.x, 63)) =>
               /\ Holds(buffer', 2 * (95 * 64 + call'.x.lo), call'.v)
               /\ call'.result = "Ok"
         /\ call'.y = Wide(96) => (buffer' = buffer /\ call'.result = "Ok")]_vars

\* C4 witness: with rotation 90 degrees set_pixel(63, 95, v) has stored v in the last
\* byte pair of the buffer.
C4_Witness ==
    /\ call.op = "set_pixel" /\ call.result = "Ok"
    /\ display_rotation = "Rotate90"
    /\ call.x = Wide(63) /\ call.y = Wide(95)
    /\ Holds(buffer, 12286, call.v)

\* C5: with rotation 0 degrees, set_pixel(x, y, v) with x <= 95 and y <= 63 stores
\* the high byte of v at offset 2*(y*96+x) and the low byte at the next offset, and
\* every other byte of the buffer keeps its value.
C5_Rotate0Write ==
    [][(/\ SetPixelStep
        /\ display_rotation = "Rotate0"
        /\ WLe(call'.x, 95) /\ WLe(call'.y, 63)) =>
         LET idx == 2 * (call'.y.lo * 96 + call'.x.lo) IN
         /\ call'.result = "Ok"
         /\ \A i \in DOMAIN buffer \cup DOMAIN buffer' \cup {idx, idx + 1} :
               Byte(buffer', i) = IF i = idx THEN call'.v \div 256
                                  ELSE IF i = idx + 1 THEN call'.v % 256
                                  ELSE Byte(buffer, i)]_vars

\* C5 witness: with rotation 0 degrees set_pixel(95, 63, 0x07E5) has stored 0x07, 0xE5
\* at offsets 12286 and 12287 of a buffer that holds another pixel too.
C5_Witness ==
    /\ call.op = "set_pixel" /\ call.result = "Ok"
    /\ display_rotation = "Rotate0"
    /\ call.x = Wide(95) /\ call.y = Wide(63) /\ call.v = 2021
    /\ Byte(buffer, 12286) = 7 /\ Byte(buffer, 12287) = 229
    /\ Cardinality(DOMAIN buffer) > 2

\* The byte offset set_pixel computes for the call recorded in c, when it computes one.
Computed(c) == PixelIndex(build, display_rotation, c.x, c.y)

\* C6 (as claimed): set_pixel leaves the buffer unchanged whenever the offset it
\* computes is at or after 12286, the offset of the last byte pair.
C6_NoopFromLastPair ==
    [][(/\ SetPixelStep
        /\ Computed(call').kind = "idx"
        /\ WGe(Computed(call').idx, BUF_SIZE - 2))
         => buffer' = buffer]_vars

\* C6 (amended): set_pixel leaves the buffer unchanged, and does not fail, whenever
\* the offset it computes is after 12286, the offset of the last byte pair; at
\* offset 12286 itself the value is stored.
C6_NoopPastLastPair ==
    [][(SetPixelStep /\ Computed(call').kind = "idx") =>
         /\ WGe(Computed(call').idx, BUF_SIZE - 1)
               => (buffer' = buffer /\ call'.result = "Ok")
         /\ Computed(call').idx = Wide(BUF_SIZE - 2)
               => Holds(buffer', BUF_SIZE - 2, call'.v)]_vars

\* C6 witness: set_pixel(0, 64, v) with rotation 0 degrees, whose offset is 12288,
\* has returned with a buffer that holds a pixel set before.
C6_Witness ==
    /\ call.op = "set_pixel" /\ call.result = "Ok"
    /\ display_rotation = "Rotate0"
    /\ call.x = Wide(0) /\ call.y = Wide(64)
    /\ Computed(call).idx = Wide(BUF_SIZE)
    /\ buffer # ZeroBuffer

\* C7 (as claimed): set_pixel never panics, whatever x and y, and every byte of the
\* buffer lies at an index in [0, 12287].
C7_SetPixelInfallible ==
    /\ call.op = "set_pixel" => call.result = "Ok"
    /\ DOMAIN buffer \subseteq 0..(BUF_SIZE - 1)

\* C8: flush never changes the buffer, whether it succeeds or fails, and a flush in
\* which a transport write fails (the write of ColumnAddress, of RowAddress or of
\* the buffer: the second, fourth and sixth I/O operation) returns Error::Comm.
C8_FlushKeepsBuffer ==
    [][(call'.op = "flush" /\ nCalls' = nCalls + 1) =>
         /\ buffer' = buffer
         /\ call'.fail \in {2, 4, 6} => call'.result = "Comm"]_vars

\* C8 witness: a flush whose buffer write failed has returned Error::Comm, the buffer
\* holding a pixel.
C8_Witness ==
    /\ call.op = "flush" /\ call.fail = 6 /\ call.result = "Comm"
    /\ buffer # ZeroBuffer
    /\ Len(bus) = 5

\* C9 (as claimed): once init() has succeeded, rotation() is the rotation of the last
\* remap command the transport accepted.
C9_RotationSynchronized == inited => rotation = lastRemap

\* The bring-up sequence of init() for a display whose stored rotation is rot.
InitCommands(rot) ==
    << <<"DisplayOn", FALSE>>, <<"DisplayClockDiv", 8, 0>>, <<"Multiplex", 63>>,
       <<"DisplayOffset", 0>>, <<"StartLine", 0>>, ExpectedRemap(rot),
       <<"Contrast", 145, 80, 125>>, <<"PreChargePeriod", 1, 15>>,
       <<"VcomhDeselect", "V071">>, <<"AllOn", FALSE>>, <<"Invert", FALSE>>,
       <<"DisplayOn", TRUE>> >>

\* C11: when the k-th command of init() fails, on its control-line step (a pin
\* error) or on its write (a transport error), init returns that error and the
\* writes of the call are exactly commands 1 .. k-1 of the bring-up sequence, once
\* each and in order: command k is not retried, no later command is sent and nothing
\* is sent to undo the earlier ones.
C11_InitStopsAtFailure ==
    (call.op = "init" /\ call.fail # 0) =>
        LET k == (call.fail + 1) \div 2 IN
        /\ call.result = (IF call.fail % 2 = 1 THEN "Pin" ELSE "Comm")
        /\ Writes(bus) = [i \in 1..(k - 1) |-> <<"cmd", InitCommands(display_rotation)[i]>>]

\* C11 witness: the write of the sixth command (the remap command) of init() failed
\* with a transport error after the first five commands had been written.
C11_Witness ==
    /\ call.op = "init"
    /\ call.fail = 12
    /\ call.result = "Comm"
    /\ Len(Writes(bus)) = 5
    /\ bus[Len(bus)] = <<"dc", "low">>

\* The byte that offset i of the framebuffer holds when the screen shows what px
\* records, in the layout of rotation 0: pixel (x, y) at 2*(y*96+x), high byte first.
DrawnByte(px, i) ==
    LET p == <<(i \div 2) % DISPLAY_WIDTH, (i \div 2) \div DISPLAY_WIDTH>> IN
    IF p \notin DOMAIN px THEN 0
    ELSE IF i % 2 = 0 THEN px[p] \div 256 ELSE px[p] % 256

\* C12: on a display constructed with rotation 0 on which only set_pixel and clear
\* were called, a successful flush() makes exactly one data write, and each pixel
\* (x, y) holds in it, at offsets 2*(y*96+x) and 2*(y*96+x)+1, the high and low byte
\* of the last value set there since construction or the last clear, zero if none.
C12_FlushShowsDrawn ==
    (call.op = "flush" /\ call.result = "Ok" /\ drawn.plain) =>
        LET ws == SelectSeq(bus, LAMBDA e : e[1] = "data") IN
        /\ Len(ws) = 1
        /\ \A i \in DOMAIN ws[1][2] \cup UNION {{2 * (p[2] * DISPLAY_WIDTH + p[1]),
                                                   2 * (p[2] * DISPLAY_WIDTH + p[1]) + 1}
                                                  : p \in DOMAIN drawn.px} :
               Byte(ws[1][2], i) = DrawnByte(drawn.px, i)

\* A step that is one call of the operation op.
CallOf(op) == call'.op = op /\ nCalls' = nCalls + 1

\* C13: reset() drives the reset line high, waits 1 ms, drives it low, waits 10 ms
\* and drives it high; when one of the three pin operations fails it returns a pin
\* error with only the steps before the failed one performed.  It writes nothing to
\* the transport and leaves the buffer and the rotation as they were.
C13_ResetSequence ==
    [][CallOf("reset") =>
        LET steps == << <<"rst", "high">>, <<"delay", 1>>, <<"rst", "low">>,
                        <<"delay", 10>>, <<"rst", "high">> >>
            f == call'.fail
        IN  /\ f \in {0, 1, 3, 5}
            /\ bus' = IF f = 0 THEN steps ELSE SubSeq(steps, 1, f - 1)
            /\ call'.result = (IF f = 0 THEN "Ok" ELSE "Pin")
            /\ Writes(bus') = <<>>
            /\ buffer' = buffer
            /\ display_rotation' = display_rotation]_vars

\* C13 witness: on a display with a pixel drawn, reset() failed to drive the line
\* low: the line was driven high and 1 ms waited, and nothing else happened.
C13_Witness ==
    /\ call.op = "reset"
    /\ call.fail = 3
    /\ call.result = "Pin"
    /\ bus = << <<"rst", "high">>, <<"delay", 1>> >>
    /\ buffer # ZeroBuffer

\* C14: in every reachable state dimensions() is (96, 64) when the stored rotation
\* is 0 or 180 degrees and (64, 96) when it is 90 or 270 degrees, and
\* Properties::dimensions() gives the same for every rotation.
C14_Dimensions ==
    /\ rotation \in {"Rotate0", "Rotate180"} => dimensions(rotation) = <<96, 64>>
    /\ rotation \in {"Rotate90", "Rotate270"} => dimensions(rotation) = <<64, 96>>
    /\ \A rot \in {"Rotate0", "Rotate180"} : Properties_dimensions(rot) = <<96, 64>>
    /\ \A rot \in {"Rotate90", "Rotate270"} : Properties_dimensions(rot) = <<64, 96>>

\* C14 witness: set_rotation has just turned a display to 270 degrees, and its
\* dimensions are (64, 96).
C14_Witness ==
    /\ call.op = "set_rotation"
    /\ call.rot = "Rotate270"
    /\ call.result = "Ok"
    /\ rotation = "Rotate270"
    /\ dimensions(rotation) = <<64, 96>>

\* A display on which nothing was called yet has no non-zero byte and has done no
\* I/O.
NewIsBlank == nCalls = 0 => (\A i \in DOMAIN buffer : buffer[i] = 0) /\ bus = <<>>

\* C15: after clear() every byte of the buffer is zero, whatever it held; clear
\* does no pin or transport operation, returns normally and leaves the rotation
\* unchanged.  A new display has an all-zero buffer and has done no I/O.
C15_Clear ==
    /\ []NewIsBlank
    /\ [][CallOf("clear") =>
            /\ \A i \in DOMAIN buffer \cup DOMAIN buffer' : Byte(buffer', i) = 0
            /\ bus' = <<>>
            /\ dc' = dc
            /\ call'.result = "Ok"
            /\ ~panicked'
            /\ display_rotation' = display_rotation]_vars

\* C15 witness: clear() has returned on a rotated display as the second call, with
\* the buffer all zero.
C15_Witness ==
    /\ call.op = "clear"
    /\ nCalls = 2
    /\ rotation = "Rotate90"
    /\ buffer = ZeroBuffer
    /\ call.result = "Ok"

\* C16: for end.x > start.x and end.y > start.y, a successful set_draw_area(start,
\* end) writes exactly ColumnAddress(start.x, end.x - 1) and then RowAddress(start.y,
\* end.y - 1); when the ColumnAddress send fails the error is returned and
\* RowAddress is not sent.  Buffer and rotation are left as they were.
C16_SetDrawArea ==
    [][(CallOf("set_draw_area") /\ call'.area[2][1] > call'.area[1][1]
                                /\ call'.area[2][2] > call'.area[1][2]) =>
        LET start == call'.area[1]
            end == call'.area[2]
            column == <<"cmd", <<"ColumnAddress", start[1], end[1] - 1>>>>
            row == <<"cmd", <<"RowAddress", start[2], end[2] - 1>>>>
        IN  /\ call'.fail = 0 => call'.result = "Ok"
            /\ call'.result = "Ok" => Writes(bus') = <<column, row>>
            /\ call'.fail = 1 => call'.result = "Pin" /\ Writes(bus') = <<>>
            /\ call'.fail = 2 => call'.result = "Comm" /\ Writes(bus') = <<>>
            /\ buffer' = buffer
            /\ display_rotation' = display_rotation]_vars

\* C16 witness: set_draw_area((10, 20), (30, 40)) has returned Ok after writing
\* ColumnAddress(10, 29) and RowAddress(20, 39).
C16_Witness ==
    /\ call.op = "set_draw_area"
    /\ call.area = <<<<10, 20>>, <<30, 40>>>>
    /\ call.result = "Ok"
    /\ Writes(bus) = << <<"cmd", <<"ColumnAddress", 10, 29>>>>,
                        <<"cmd", <<"RowAddress", 20, 39>>>> >>

\* C17: set_draw_area with end.x = 0 or end.y = 0 and no I/O failure reports no
\* error: the end operand wraps to 255 and the ColumnAddress / RowAddress command
\* carrying it is sent.
C17_ZeroEndWraps ==
    (call.op = "set_draw_area" /\ call.fail = 0) =>
        LET start == call.area[1]
            end == call.area[2]
        IN  /\ (end[1] = 0 \/ end[2] = 0) => call.result \notin {"Pin", "Comm"}
            /\ end[1] = 0 =>
                   \E i \in 1..Len(bus) : bus[i] = <<"cmd", <<"ColumnAddress", start[1], 255>>>>
            /\ end[2] = 0 =>
                   \E i \in 1..Len(bus) : bus[i] = <<"cmd", <<"RowAddress", start[2], 255>>>>

\* set_draw_area with a zero end on a build without overflow checks: the commands
\* with the wrapped operand 255 are written and the call returns Ok.
ZeroEndWrapsUnchecked ==
    (call.op = "set_draw_area" /\ call.fail = 0 /\ ~build.checks) =>
        /\ call.result = "Ok"
        /\ C17_ZeroEndWraps

\* Every write among the events evs, performed from the pin level `level`, is made
\* at the level of its kind: commands low, framebuffer bytes high.
AtRightLevel(level, evs) ==
    \A i \in 1..Len(evs) :
        LET at == DcAfter(level, SubSeq(evs, 1, i - 1)) IN
        /\ evs[i][1] = "cmd" => at = "low"
        /\ evs[i][1] = "data" => at = "high"

\* C18: in every call, each write of command bytes is made with the data/command
\* line low and each write of framebuffer bytes with the line high, whatever level
\* the previous call left (a command after a flush is not written with the line
\* still high); when flush, or Properties::draw, fails to set the line, the buffer
\* is not written.
C18_WritesAtRightLevel ==
    [][nCalls' = nCalls + 1 =>
        /\ AtRightLevel(dc, bus')
        /\ (call'.op = "flush" /\ call'.fail = 5) =>
               \A i \in 1..Len(bus') : bus'[i][1] # "data"
        /\ AtRightLevel(dc, Properties_draw(buffer))
        /\ Writes(Run(Properties_draw(buffer), 1).done) = <<>>]_vars

\* C18 witness: flush() has written the buffer right after init(): the line was
\* low for the two address commands and was left high by the data write.
C18_Witness ==
    /\ call.op = "flush"
    /\ inited
    /\ call.result = "Ok"
    /\ nCalls = 2
    /\ Len(Writes(bus)) = 3
    /\ bus[Len(bus)] = <<"data", buffer>>
    /\ dc = "high"

\* C19: only set_rotation changes the stored rotation: a call of init, flush,
\* set_draw_area, set_pixel, clear or reset leaves rotation() as it was before the
\* call, whether the call succeeds, fails or panics, and no step other than a call
\* of set_rotation changes it.
C19_OnlySetRotationRotates ==
    [][/\ (\E op \in {"init", "flush", "set_draw_area", "set_pixel", "clear", "reset"} :
               CallOf(op)) => rotation' = rotation
       /\ rotation' # rotation => CallOf("set_rotation")]_vars

\* C19 witness: on a display rotated by 90 degrees the buffer write of flush() has
\* failed, and the display is still rotated by 90 degrees.
C19_Witness ==
    /\ call.op = "flush"
    /\ call.fail = 6
    /\ call.result = "Comm"
    /\ rotation = "Rotate90"

\* The offsets of the two bytes set_pixel stores pixel q at under rotation rot; none
\* when the call returns early or panics.
PairOf(rot, q) ==
    LET r == PixelIndex(build, rot, q[1], q[2]) IN
    IF r.kind = "idx" /\ r.idx.hi = 0 THEN {r.idx.lo, r.idx.lo + 1} ELSE {}

\* C20: under each rotation, set_pixel on a pixel p inside dimensions() stores its
\* value in p's byte pair, and that pair is disjoint from the pair of every other
\* pixel q inside dimensions(), whose bytes the call leaves as they were (so q still
\* reads back the last value set on it).
C20_DisjointPixels ==
    [][(SetPixelStep /\ ~OutsideLogical(rotation, call'.x, call'.y)) =>
        LET p == <<call'.x, call'.y>> IN
        /\ Cardinality(PairOf(rotation, p)) = 2
        /\ \A i \in PairOf(rotation, p) :
               i % 2 = 0 => /\ Holds(buffer', i, call'.v)
                            /\ i + 1 \in PairOf(rotation, p)
        /\ \A q \in PIXELS :
               (q # p /\ ~OutsideLogical(rotation, q[1], q[2])) =>
                   /\ Cardinality(PairOf(rotation, q)) = 2
                   /\ PairOf(rotation, q) \cap PairOf(rotation, p) = {}
                   /\ \A i \in PairOf(rotation, q) : Byte(buffer', i) = Byte(buffer, i)]_vars

\* C20 witness: on a display rotated by 90 degrees, pixel (63, 95) has been set to
\* 0xF800 after pixel (0, 1) was set to 0x07E5, and both read back.
C20_Witness ==
    /\ call.op = "set_pixel"
    /\ rotation = "Rotate90"
    /\ <<call.x, call.y>> = P(63, 95)
    /\ call.v = 63488
    /\ Holds(buffer, 2 * (95 * 64 + 63), 63488)
    /\ Holds(buffer, 2 * (1 * 64 + 0), 2021)

\* What a caller of Properties puts on the bus with set_draw_area((0, 0), (96, 64))
\* and then, if that returned Ok, draw(buf), when event f of the whole (counted as
\* in flush: 1..4 the two address commands, 5 the pin, 6 the write) fails.
PropertiesFrame(b, buf, f) ==
    LET area == Properties_Run(Properties_set_draw_area(b, <<0, 0>>, <<96, 64>>),
                               IF f <= 4 THEN f ELSE 0)
        draw == Properties_Run(Properties_draw(buf), IF f > 4 THEN f - 4 ELSE 0)
    IN  IF area.result = "Ok"
        THEN [done |-> area.done \o draw.done, result |-> draw.result]
        ELSE area

\* C21: with the same rotation and the same failing transport or pin step (if
\* any), Properties::init_column_mode puts on the bus what Ssd1331::init did,
\* Properties::set_rotation what Ssd1331::set_rotation did, and
\* Properties::set_draw_area((0,0),(96,64)) followed by Properties::draw of an
\* equal buffer what Ssd1331::flush did: the same commands, control-line levels and
\* data, in the same order, and Ok exactly when the Ssd1331 call returned Ok.
C21_PropertiesEquivalent ==
    LET same(r) == r.done = bus /\ (r.result = "Ok") = (call.result = "Ok")
                               /\ (r.result = "Panic") = (call.result = "Panic")
    IN  /\ call.op = "init" =>
               same(Properties_Run(Properties_init_column_mode(rotation), call.fail))
        /\ call.op = "set_rotation" =>
               /\ same(Properties_Run(Properties_set_rotation(call.rot), call.fail))
               /\ Len(Writes(Properties_set_rotation(call.rot))) = 1
        /\ call.op = "flush" => same(PropertiesFrame(build, buffer, call.fail))

\* C21 witness: flush() has written a buffer with a pixel in it, after the two
\* address commands, which is what the Properties calls put on the bus.
C21_Witness ==
    /\ call.op = "flush"
    /\ call.result = "Ok"
    /\ buffer # ZeroBuffer
    /\ bus = PropertiesFrame(build, buffer, 0).done
    /\ Len(bus) = 6

====
